---- MODULE Spec2Model ----
(***************************************************************************)
(* Model of the project generator (src/unnamed/part_000, the generator     *)
(* with Tailwind support).  The manifest (package.json) is modelled as the *)
(* JSON text on disk; JavaScript objects are modelled with the property    *)
(* order of ordinary objects (integer-index keys first, ascending, then    *)
(* string keys in creation order).                                         *)
(***************************************************************************)
EXTENDS Integers, Sequences, FiniteSets, TLC

VARIABLES
  config,           \* the answers: projectName, type, useTailwindcss, useGit
  pc,               \* createProject: index of the operation it is at
  phase,            \* "running", "done" (createProject returned), "failed" (a
                    \* catch ended the process) or "crashed" (the runtime did)
  packageJson,      \* the manifest file of the project directory
  files,            \* the other paths of the project directory, with their content
  git,              \* the repository in the project directory
  child,            \* the child process of runCommand
  task,             \* the Manifest Store call the step is awaiting
  detached,         \* the Manifest Store call whose promise was dropped
  exitCode,         \* process exit code, -1 while the process runs
  report,           \* what the catch printed
  trace,            \* the actions executed so far, in order
  prevTrace,        \* the trace of the previous assembly (second run only)
  runNo,            \* 1 for the first assembly, 2 for the second
  manifest0,        \* merge harness: the manifest before the first call
  mstep,            \* merge harness: number of calls made
  addA, addB,       \* merge harness: the two additions mappings
  fileAB, fileBA,   \* merge harness: the manifest after A then B, and after B then A
  again,            \* merge harness: the manifest after A applied twice
  typed             \* merge harness: the manifest after modulePackageJson

pipelineVars == <<config, pc, phase, packageJson, files, git, child, task,
                  detached, exitCode, report, trace, prevTrace, runNo>>
mergeVars == <<manifest0, mstep, addA, addB, fileAB, fileBA, again, typed>>
vars == <<config, pc, phase, packageJson, files, git, child, task,
          detached, exitCode, report, trace, prevTrace, runNo,
          manifest0, mstep, addA, addB, fileAB, fileBA, again, typed>>

----------------------------------------------------------------------------
(* Bounds *)

\* largest number of entries of a scripts mapping drawn as an input of the merge harness
MaxScripts == 2

----------------------------------------------------------------------------
(* Strings as UTF-16 code units: what Array.prototype.sort compares *)

CodeUnits(k) ==
  CASE k = "10" -> <<49, 48>>
    [] k = "2" -> <<50>>
    [] k = "build" -> <<98, 117, 105, 108, 100>>
    [] k = "css" -> <<99, 115, 115>>
    [] k = "dev" -> <<100, 101, 118>>
    [] k = "dev:tailwind" -> <<100, 101, 118, 58, 116, 97, 105, 108, 119, 105, 110, 100>>
    [] k = "dev:typescript" -> <<100, 101, 118, 58, 116, 121, 112, 101, 115, 99, 114, 105, 112, 116>>
    [] k = "format" -> <<102, 111, 114, 109, 97, 116>>
    [] k = "lint" -> <<108, 105, 110, 116>>
    [] k = "test" -> <<116, 101, 115, 116>>
    [] k = "typecheck" -> <<116, 121, 112, 101, 99, 104, 101, 99, 107>>
    [] k = "name" -> <<110, 97, 109, 101>>
    [] k = "version" -> <<118, 101, 114, 115, 105, 111, 110>>
    [] k = "scripts" -> <<115, 99, 114, 105, 112, 116, 115>>
    [] k = "devDependencies" -> <<100, 101, 118, 68, 101, 112, 101, 110, 100, 101, 110, 99, 105, 101, 115>>
    [] k = "type" -> <<116, 121, 112, 101>>
    [] k = "eslint" -> <<101, 115, 108, 105, 110, 116>>
    [] k = "prettier" -> <<112, 114, 101, 116, 116, 105, 101, 114>>
    [] k = "eslint-config-prettier" -> <<101, 115, 108, 105, 110, 116, 45, 99, 111, 110, 102, 105, 103, 45, 112, 114, 101, 116, 116, 105, 101, 114>>
    [] k = "eslint-config-airbnb" -> <<101, 115, 108, 105, 110, 116, 45, 99, 111, 110, 102, 105, 103, 45, 97, 105, 114, 98, 110, 98>>
    [] k = "eslint-plugin-import" -> <<101, 115, 108, 105, 110, 116, 45, 112, 108, 117, 103, 105, 110, 45, 105, 109, 112, 111, 114, 116>>
    [] k = "typescript" -> <<116, 121, 112, 101, 115, 99, 114, 105, 112, 116>>
    [] k = "@types/node" -> <<64, 116, 121, 112, 101, 115, 47, 110, 111, 100, 101>>
    [] k = "@typescript-eslint/parser" -> <<64, 116, 121, 112, 101, 115, 99, 114, 105, 112, 116, 45, 101, 115, 108, 105, 110, 116, 47, 112, 97, 114, 115, 101, 114>>
    [] k = "@typescript-eslint/eslint-plugin" -> <<64, 116, 121, 112, 101, 115, 99, 114, 105, 112, 116, 45, 101, 115, 108, 105, 110, 116, 47, 101, 115, 108, 105, 110, 116, 45, 112, 108, 117, 103, 105, 110>>
    [] k = "tailwindcss" -> <<116, 97, 105, 108, 119, 105, 110, 100, 99, 115, 115>>
    [] k = "prettier-plugin-tailwindcss" -> <<112, 114, 101, 116, 116, 105, 101, 114, 45, 112, 108, 117, 103, 105, 110, 45, 116, 97, 105, 108, 119, 105, 110, 100, 99, 115, 115>>
    [] k = "npm-run-all" -> <<110, 112, 109, 45, 114, 117, 110, 45, 97, 108, 108>>

\* ordinal comparison of two code-unit sequences (the default sort order)
RECURSIVE UnitsLess(_, _)
UnitsLess(a, b) ==
  IF Len(b) = 0 THEN FALSE
  ELSE IF Len(a) = 0 THEN TRUE
  ELSE IF Head(a) # Head(b) THEN Head(a) < Head(b)
  ELSE UnitsLess(Tail(a), Tail(b))

KeyLess(j, k) == UnitsLess(CodeUnits(j), CodeUnits(k))

IsDigit(u) == u >= 48 /\ u <= 57

\* a canonical numeric string: an array index of an ordinary object
IsArrayIndex(k) ==
  LET u == CodeUnits(k) IN
    /\ Len(u) > 0
    /\ Len(u) < 10
    /\ \A i \in 1..Len(u) : IsDigit(u[i])
    /\ (Len(u) > 1 => u[1] # 48)

RECURSIVE UnitsValue(_)
UnitsValue(u) ==
  IF Len(u) = 0 THEN 0
  ELSE 10 * UnitsValue(SubSeq(u, 1, Len(u) - 1)) + (u[Len(u)] - 48)

IndexValue(k) == UnitsValue(CodeUnits(k))

----------------------------------------------------------------------------
(* JavaScript values and ordinary objects.  An object is the sequence of   *)
(* its own properties <<key, value>> in enumeration order.                 *)

Undefined == [undef |-> TRUE]
Str(s) == [str |-> s]
Obj(o) == [obj |-> o]
IsObj(v) == "obj" \in DOMAIN v

OwnKeys(o) == [i \in 1..Len(o) |-> o[i][1]]
HasOwn(o, k) == \E i \in 1..Len(o) : o[i][1] = k
Get(o, k) ==
  IF HasOwn(o, k) THEN o[CHOOSE i \in 1..Len(o) : o[i][1] = k][2] ELSE Undefined

\* number of array-index keys of o that come before array index k
IndexRank(o, k) ==
  Cardinality({i \in 1..Len(o) :
     IsArrayIndex(o[i][1]) /\ IndexValue(o[i][1]) < IndexValue(k)})

\* o[k] = v on an ordinary object
CreateDataProperty(o, k, v) ==
  IF HasOwn(o, k)
    THEN [i \in 1..Len(o) |-> IF o[i][1] = k THEN <<k, v>> ELSE o[i]]
  ELSE IF IsArrayIndex(k)
    THEN SubSeq(o, 1, IndexRank(o, k)) \o << <<k, v>> >>
           \o SubSeq(o, IndexRank(o, k) + 1, Len(o))
  ELSE Append(o, <<k, v>>)

\* { ...target, ...source } once target has been copied: the properties of
\* source are defined on target in source's enumeration order
RECURSIVE CopyDataProperties(_, _)
CopyDataProperties(target, source) ==
  IF Len(source) = 0 THEN target
  ELSE CopyDataProperties(CreateDataProperty(target, source[1][1], source[1][2]),
                          Tail(source))

\* { ...a, ...b } where a may be undefined
Spread(a, b) ==
  CopyDataProperties(
    IF IsObj(a) THEN CopyDataProperties(<< >>, a.obj) ELSE << >>, b)

\* Array.prototype.sort() with the default comparator
RECURSIVE Insert(_, _)
Insert(k, s) ==
  IF Len(s) = 0 THEN <<k>>
  ELSE IF KeyLess(k, Head(s)) THEN <<k>> \o s
  ELSE <<Head(s)>> \o Insert(k, Tail(s))

RECURSIVE Sort(_)
Sort(keys) == IF Len(keys) = 0 THEN << >> ELSE Insert(Head(keys), Sort(Tail(keys)))

----------------------------------------------------------------------------
(* JSON text.  A text is the sequence of members as written, in text order *)
(* (which may repeat a key), and whether a newline ends the file.          *)

RECURSIVE ParseMembers(_)
ParseMembers(members) ==
  IF Len(members) = 0 THEN << >>
  ELSE LET m == members[Len(members)]
           v == IF IsObj(m[2]) THEN Obj(ParseMembers(m[2].obj)) ELSE m[2]
       IN CreateDataProperty(ParseMembers(SubSeq(members, 1, Len(members) - 1)),
                             m[1], v)

JSONparse(text) == ParseMembers(text.members)

\* JSON.stringify(value, null, 2): members in enumeration order, no final newline
JSONstringify(o) == [exists |-> TRUE, members |-> o, eol |-> FALSE]

NoFile == [exists |-> FALSE, members |-> << >>, eol |-> FALSE]

----------------------------------------------------------------------------
(* The Manifest Store *)

\* mutant: the spread operands exchanged, so that the existing scripts win
mergedScripts_ExistingWin(pkg, scripts) ==
  LET old == Get(pkg, "scripts") IN
    Spread(Obj(scripts), IF IsObj(old) THEN old.obj ELSE << >>)

\* lines 95-98: packageJson.scripts = { ...packageJson.scripts, ...scripts }
mergedScripts(pkg, scripts) == Spread(Get(pkg, "scripts"), scripts)

\* lines 101-109: Object.keys(...).sort().reduce((obj, key) => ({...obj, [key]: ...}), {})
RECURSIVE reduceSorted(_, _, _)
reduceSorted(obj, keys, scripts) ==
  IF Len(keys) = 0 THEN obj
  ELSE reduceSorted(CreateDataProperty(Spread(Obj(obj), << >>), Head(keys),
                                       Get(scripts, Head(keys))),
                    Tail(keys), scripts)

\* mutant: .reverse() in the place of .sort()
sortKeys_Reversed(keys) == [i \in 1..Len(keys) |-> keys[Len(keys) + 1 - i]]

\* lines 101-102: Object.keys(packageJson.scripts).sort()
sortKeys(keys) == Sort(keys)

sortedScripts(merged) == reduceSorted(<< >>, sortKeys(OwnKeys(merged)), merged)

\* lines 92-116 after the read: parse, merge, sort, and the text that is written
addScriptsText(text, scripts) ==
  LET pkg == JSONparse(text) IN
    JSONstringify(
      CreateDataProperty(pkg, "scripts", Obj(sortedScripts(mergedScripts(pkg, scripts)))))

\* lines 84-117, the whole awaited call on the file as it is at call time
addScriptsToPackageJson(file, scripts) ==
  IF ~file.exists THEN [file |-> file, error |-> "File not found"]
  ELSE [file |-> addScriptsText(file, scripts), error |-> "none"]

\* mutant: the manifest is written with the type alone
moduleText_OnlyType(text) ==
  JSONstringify(CreateDataProperty(<< >>, "type", Str("module")))

\* lines 71-79 after the read: parse, set type, and the text that is written
moduleText(text) ==
  JSONstringify(CreateDataProperty(JSONparse(text), "type", Str("module")))

\* lines 63-80, the whole awaited call
modulePackageJson(file) ==
  IF ~file.exists THEN [file |-> file, error |-> "File not found"]
  ELSE [file |-> moduleText(file), error |-> "none"]

----------------------------------------------------------------------------
(* The commands the generator runs, and the static templates *)

NPM_INIT == "npm init -y"
NPM_INSTALL_LINT ==
  "npm install --save-dev eslint prettier eslint-config-prettier eslint-config-airbnb eslint-plugin-import"
NPM_INSTALL_RUN_ALL == "npm install --save-dev npm-run-all"
NPM_INSTALL_TYPESCRIPT ==
  "npm install --save-dev typescript @types/node @typescript-eslint/parser @typescript-eslint/eslint-plugin"
NPM_INSTALL_TAILWIND == "npm install --save-dev tailwindcss"
TAILWIND_INIT_TS == "npx tailwindcss init --ts"
TAILWIND_INIT_ESM == "npx tailwindcss init --esm"
NPM_INSTALL_PRETTIER_PLUGIN == "npm install --save-dev prettier-plugin-tailwindcss"
NPM_INSTALL_AIRBNB == "npm install --save-dev eslint-config-airbnb"
GIT_INIT == "git init"
GIT_ADD == "git add ."
GIT_COMMIT == "git commit -m \"Initial commit: project setup\""
GIT_CHECKOUT == "git checkout -b dev"

TSCONFIG == "project_config/tsconfig.json"
ESLINT_CONFIG_JS == "project_config/.eslintrc_js.json"
ESLINT_CONFIG_TS == "project_config/.eslintrc_ts.json"
PRETTIER_CONFIG == "project_config/.prettierrc.json"
GITIGNORE == "project_config/.gitignore"

HELLO == "console.log(\"Hello, world!\");"
CSS_CONTENT == "@import 'tailwindcss/base'; ..."
HTML_CONTENT == "<!DOCTYPE html> ... <link href=\"./build/output.css\" rel=\"stylesheet\"> ..."
EMPTY_CONTENT_GLOB == "content: [],"
SOURCE_CONTENT_GLOB == "content: [\"./src/**/*.{html,js}\", \"./index.html\"],"
DIRECTORY == "<directory>"

----------------------------------------------------------------------------
(* The awaited operations of the functions, in program order.  Every       *)
(* operation names the function that contains it.                          *)

Run(fn, command) == [op |-> "run", fn |-> fn, command |-> command]
Mkdir(fn, path, recursive) ==
  [op |-> "mkdir", fn |-> fn, path |-> path, recursive |-> recursive]
Template(fn, from, to) == [op |-> "template", fn |-> fn, from |-> from, to |-> to]
Write(fn, path, content) == [op |-> "write", fn |-> fn, path |-> path, content |-> content]
Replace(fn, path, pattern, by) ==
  [op |-> "replace", fn |-> fn, path |-> path, pattern |-> pattern, by |-> by]
Module(fn) == [op |-> "module", fn |-> fn, awaited |-> TRUE]
Throw(fn, message) == [op |-> "throw", fn |-> fn, message |-> message]
Scripts(fn, scripts, awaited) ==
  [op |-> "scripts", fn |-> fn, scripts |-> scripts, awaited |-> awaited]

\* an object literal: properties defined in source order
Object(pairs) == CopyDataProperties(<< >>, pairs)

\* mutant: the scripts are merged before the type is set
createNpmProject_MergeFirst ==
  << Run("createNpmProject", NPM_INIT),
     Run("createNpmProject", NPM_INSTALL_LINT),
     Scripts("createNpmProject",
             Object(<< <<"format", Str("prettier --write .")>>,
                       <<"lint", Str("eslint .")>> >>), TRUE),
     Module("createNpmProject") >>

\* lines 122-139
createNpmProject ==
  << Run("createNpmProject", NPM_INIT),
     Run("createNpmProject", NPM_INSTALL_LINT),
     Module("createNpmProject"),
     Scripts("createNpmProject",
             Object(<< <<"format", Str("prettier --write .")>>,
                       <<"lint", Str("eslint .")>> >>), TRUE) >>

\* mutant: the flag is not looked at, the single-key scripts are always merged
setupTypescript_AlwaysSingle(single) ==
  << Run("setupTypescript", NPM_INSTALL_TYPESCRIPT),
     Template("setupTypescript", TSCONFIG, "tsconfig.json"),
     Mkdir("setupTypescript", "src", TRUE),
     Scripts("setupTypescript",
             Object(<< <<"build", Str("tsc")>>,
                       <<"dev", Str("tsc -w")>>,
                       <<"typecheck", Str("tsc -b")>> >>), TRUE),
     Write("setupTypescript", "src/app.ts", HELLO) >>

\* lines 144-173
setupTypescript(single) ==
  << Run("setupTypescript", NPM_INSTALL_TYPESCRIPT),
     Template("setupTypescript", TSCONFIG, "tsconfig.json"),
     Mkdir("setupTypescript", "src", TRUE),
     IF single
       THEN Scripts("setupTypescript",
                    Object(<< <<"build", Str("tsc")>>,
                              <<"dev", Str("tsc -w")>>,
                              <<"typecheck", Str("tsc -b")>> >>), TRUE)
       ELSE Scripts("setupTypescript",
                    Object(<< <<"dev:typescript", Str("tsc -w")>> >>), TRUE),
     Write("setupTypescript", "src/app.ts", HELLO) >>

setupTailwindcss(type, single) ==
  << Run("setupTailwindcss", NPM_INSTALL_TAILWIND),
     Run("setupTailwindcss",
         IF type = "TypeScript" THEN TAILWIND_INIT_TS ELSE TAILWIND_INIT_ESM),
     Mkdir("setupTailwindcss", "src/styles", TRUE),
     Replace("setupTailwindcss",
             IF type = "TypeScript" THEN "tailwind.config.ts" ELSE "tailwind.config.js",
             EMPTY_CONTENT_GLOB, SOURCE_CONTENT_GLOB),
     Write("setupTailwindcss", "src/styles/styles.css", CSS_CONTENT),
     Write("setupTailwindcss", "index.html", HTML_CONTENT),
     IF single
       THEN Scripts("setupTailwindcss",
                    Object(<< <<"css",
                       Str("tailwindcss -i ./src/styles.css -o ./build/output.css --watch")>> >>),
                    FALSE)
       ELSE Scripts("setupTailwindcss",
                    Object(<< <<"dev:tailwind",
                       Str("tailwindcss -i ./src/styles/tailwind.css -o ./build/output.css --watch")>> >>),
                    TRUE),
     Run("setupTailwindcss", NPM_INSTALL_PRETTIER_PLUGIN) >>

createEslintConfig(type) ==
  IF type = "JavaScript"
    THEN << Run("createEslintConfig", NPM_INSTALL_AIRBNB),
            Template("createEslintConfig", ESLINT_CONFIG_JS, ".eslintrc.json") >>
  ELSE IF type = "TypeScript"
    THEN << Template("createEslintConfig", ESLINT_CONFIG_TS, ".eslintrc.json") >>
  ELSE << Throw("createEslintConfig", "Invalid project type") >>

createPrettierConfig ==
  << Template("createPrettierConfig", PRETTIER_CONFIG, ".prettierrc.json") >>

\* mutant: the dev branch is never created
setupGit_NoCheckout(useGit) ==
  IF useGit
    THEN << Template("setupGit", GITIGNORE, ".gitignore"),
            Run("setupGit", GIT_INIT),
            Run("setupGit", GIT_ADD),
            Run("setupGit", GIT_COMMIT) >>
    ELSE << >>

\* mutant: the useGit answer is not looked at
setupGit_Always(useGit) ==
  << Template("setupGit", GITIGNORE, ".gitignore"),
     Run("setupGit", GIT_INIT),
     Run("setupGit", GIT_ADD),
     Run("setupGit", GIT_COMMIT),
     Run("setupGit", GIT_CHECKOUT) >>

\* lines 285-305
setupGit(useGit) ==
  IF useGit
    THEN << Template("setupGit", GITIGNORE, ".gitignore"),
            Run("setupGit", GIT_INIT),
            Run("setupGit", GIT_ADD),
            Run("setupGit", GIT_COMMIT),
            Run("setupGit", GIT_CHECKOUT) >>
    ELSE << >>

\* lines 321-323
singleDevScriptOf(type, useTailwindcss) == ~(type = "TypeScript" /\ useTailwindcss)

createProject(type, useTailwindcss, useGit) ==
  LET single == singleDevScriptOf(type, useTailwindcss) IN
    << Mkdir("createProject", ".", FALSE) >>
    \o createNpmProject
    \o (IF type = "TypeScript" /\ useTailwindcss
          THEN << Run("createProject", NPM_INSTALL_RUN_ALL),
                  Scripts("createProject",
                          Object(<< <<"dev", Str("run-p dev:*")>> >>), TRUE) >>
          ELSE << >>)
    \o (IF type = "TypeScript" THEN setupTypescript(single) ELSE << >>)
    \o (IF useTailwindcss THEN setupTailwindcss(type, single) ELSE << >>)
    \o createEslintConfig(type)
    \o createPrettierConfig
    \o setupGit(useGit)

Program == createProject(config.type, config.useTailwindcss, config.useGit)
singleDevScript == singleDevScriptOf(config.type, config.useTailwindcss)
Op == Program[pc]
AtOp(kind) == phase = "running" /\ pc <= Len(Program) /\ Op.op = kind

----------------------------------------------------------------------------
(* The external programs, as far as the generator depends on them *)

\* the packages an install command names after --save-dev
Packages(command) ==
  CASE command = NPM_INSTALL_LINT ->
         <<"eslint", "prettier", "eslint-config-prettier", "eslint-config-airbnb",
           "eslint-plugin-import">>
    [] command = NPM_INSTALL_RUN_ALL -> <<"npm-run-all">>
    [] command = NPM_INSTALL_TYPESCRIPT ->
         <<"typescript", "@types/node", "@typescript-eslint/parser",
           "@typescript-eslint/eslint-plugin">>
    [] command = NPM_INSTALL_TAILWIND -> <<"tailwindcss">>
    [] command = NPM_INSTALL_PRETTIER_PLUGIN -> <<"prettier-plugin-tailwindcss">>
    [] command = NPM_INSTALL_AIRBNB -> <<"eslint-config-airbnb">>
    [] OTHER -> << >>

IsInstall(command) == Len(Packages(command)) > 0

\* number of effects a command has on the project directory before it exits with 0:
\* an install reads the manifest and later writes it back
Stages(command) == IF IsInstall(command) THEN 2 ELSE 1

\* the manifest npm init -y writes: name from the directory, the default test script
NpmInitManifest(projectName) ==
  [exists |-> TRUE,
   members |-> << <<"name", Str(projectName)>>,
                  <<"version", Str("1.0.0")>>,
                  <<"scripts", Obj(<< <<"test",
                       Str("echo \"Error: no test specified\" && exit 1")>> >>)>> >>,
   eol |-> TRUE]

RECURSIVE AddDeps(_, _)
AddDeps(deps, names) ==
  IF Len(names) = 0 THEN deps
  ELSE AddDeps(CreateDataProperty(deps, Head(names), Str("^latest")), Tail(names))

\* the manifest npm install --save-dev writes, from the manifest it read
NpmInstallManifest(text, names) ==
  LET pkg == JSONparse(text)
      old == Get(pkg, "devDependencies")
      all == AddDeps(IF IsObj(old) THEN old.obj ELSE << >>, names)
      sorted == reduceSorted(<< >>, Sort(OwnKeys(all)), all)
  IN [exists |-> TRUE,
      members |-> CreateDataProperty(pkg, "devDependencies", Obj(sorted)),
      eol |-> TRUE]

NoGit == [repo |-> FALSE, staged |-> FALSE, index |-> <<NoFile, << >> >>,
          commits |-> << >>, branch |-> ""]

\* whether the command can do its work in the directory as it is
CanWork(command) ==
  CASE command = GIT_INIT -> TRUE
    [] command = GIT_ADD -> git.repo
    [] command = GIT_COMMIT -> git.repo /\ git.staged
    [] command = GIT_CHECKOUT -> git.repo /\ Len(git.commits) > 0
    [] OTHER -> "." \in DOMAIN files

SetFile(f, path, content) ==
  [p \in DOMAIN f \cup {path} |-> IF p = path THEN content ELSE f[p]]

----------------------------------------------------------------------------
(* State *)

ProjectNames == {"demo", "my_project"}
Types == {"JavaScript", "TypeScript"}

Configs ==
  [projectName : ProjectNames, type : Types,
   useTailwindcss : BOOLEAN, useGit : BOOLEAN]

\* the promise runCommand returns (line 35): its state, the value it is rejected
\* with and the number of calls of resolve or reject
NoPromise == [state |-> "pending", reason |-> "", calls |-> 0]

NoChild == [st |-> "none", command |-> "", file |-> "", args |-> << >>,
            stage |-> 0, buf |-> NoFile, code |-> 0,
            promise |-> NoPromise, stderr |-> << >>]
NoTask == [st |-> "none", kind |-> "", scripts |-> << >>, buf |-> NoFile]

PipelineStart ==
  /\ pc = 1
  /\ phase = "running"
  /\ packageJson = NoFile
  /\ files = << >>
  /\ git = NoGit
  /\ child = NoChild
  /\ task = NoTask
  /\ detached = NoTask
  /\ exitCode = -1
  /\ report = ""
  /\ trace = << >>

PipelineInit ==
  /\ config \in Configs
  /\ PipelineStart
  /\ prevTrace = << >>
  /\ runNo = 1

\* answers no check of the tool excludes: the name is free text (lines 355-360),
\* here the empty name and a name with a path separator; createProject takes
\* any type (line 312)
OtherNames == {"", "a/b"}
OtherTypes == {"Python"}
AnyConfigs ==
  [projectName : {"demo"} \cup OtherNames, type : Types \cup OtherTypes,
   useTailwindcss : BOOLEAN, useGit : BOOLEAN]

PipelineInitAny ==
  /\ config \in AnyConfigs
  /\ PipelineStart
  /\ prevTrace = << >>
  /\ runNo = 1

\* what can be at the project path when the tool is started: nothing, a file,
\* an empty directory, or a directory with a manifest and a source file
EXISTING_FILE == "<file>"
Occupants ==
  { << >>,
    [p \in {"."} |-> EXISTING_FILE],
    [p \in {"."} |-> DIRECTORY],
    [p \in {".", "src", "src/app.js"} |-> IF p = "src/app.js" THEN HELLO ELSE DIRECTORY] }

PipelineInitOccupied ==
  /\ config \in Configs
  /\ files \in Occupants
  /\ packageJson = IF "src" \in DOMAIN files THEN NpmInitManifest(config.projectName)
                                             ELSE NoFile
  /\ pc = 1
  /\ phase = "running"
  /\ git = NoGit
  /\ child = NoChild
  /\ task = NoTask
  /\ detached = NoTask
  /\ exitCode = -1
  /\ report = ""
  /\ trace = << >>
  /\ prevTrace = << >>
  /\ runNo = 1

PipelineIdle ==
  /\ config = [projectName |-> "demo", type |-> "JavaScript",
               useTailwindcss |-> FALSE, useGit |-> FALSE]
  /\ PipelineStart
  /\ prevTrace = << >>
  /\ runNo = 1

Pending(t) == t.st \in {"reading", "writing"}

\* the dropped promise of lines 235-237 was rejected and nothing handles it:
\* the runtime deals with it at the end of the turn, before any other event
RejectionQueued == detached.st = "rejected"

\* mutant: the operation that has finished is invoked again
Advance_Retries ==
  /\ pc' = pc
  /\ phase' = phase
  /\ exitCode' = exitCode
  /\ report' = report
  /\ detached' = detached

\* the promise chain of createProject continues with the next operation
Advance ==
  /\ pc' = pc + 1
  /\ phase' = IF pc = Len(Program) THEN "done" ELSE "running"
  /\ exitCode' = exitCode
  /\ report' = report
  /\ detached' = detached

\* lines 135-138 and 344-347: the catch that encloses the operation reports
\* and calls process.exit(1), which ends every pending operation
\* mutant: one message for every step
Catch_Generic(fn) == "Error creating project"

Catch(fn) == IF fn = "createNpmProject"
               THEN "Error while creating npm project"
               ELSE "Error creating project"

\* the messages of the errors the operations throw; paths are relative to the
\* directory the tool is started in
PackageJsonPath == config.projectName \o "/package.json"
FileNotFound == "File not found: " \o PackageJsonPath
DirectoryExists(path) == "EEXIST: file already exists, mkdir '" \o path \o "'"
NoSuchDirectory(path) == "ENOENT: no such file or directory, mkdir '" \o path \o "'"
NoSuchFile(path) == "ENOENT: no such file or directory, open '" \o path \o "'"

Fail(message) ==
  /\ pc' = pc
  /\ phase' = "failed"
  /\ exitCode' = 1
  /\ report' = Catch(Op.fn) \o ": " \o message
  /\ detached' = IF Pending(detached) THEN [detached EXCEPT !.st = "killed"]
                 ELSE detached

\* an entry of the trace: what happened, to which command, call or path, and
\* for the exit of a child its exit code
Event(e, what, code) == [e |-> e, what |-> what, code |-> code]
Log(e, what) == trace' = Append(trace, Event(e, what, 0))
LogExit(command, code) == trace' = Append(trace, Event("exit", command, code))

----------------------------------------------------------------------------
(* Merge harness: addScriptsToPackageJson applied to drawn manifests and   *)
(* additions, as two successive awaited calls in both orders.              *)

MergeKeys == {"build", "dev", "10", "2"}

KeySeqs ==
  {s \in UNION {[1..n -> MergeKeys] : n \in 0..MaxScripts} :
     \A i, j \in DOMAIN s : i # j => s[i] # s[j]}

\* an object literal whose keys are inserted in the order of s, all with value v
Literal(s, v) == CopyDataProperties(<< >>, [i \in DOMAIN s |-> <<s[i], Str(v)>>])

\* a manifest text whose scripts are written in the order of s
ManifestText(s) ==
  [exists |-> TRUE,
   members |-> << <<"name", Str("demo")>>,
                  <<"scripts", Obj([i \in DOMAIN s |-> <<s[i], Str("old")>>])>>,
                  <<"version", Str("1.0.0")>> >>,
   eol |-> TRUE]

ManifestNoScripts ==
  [exists |-> TRUE,
   members |-> << <<"name", Str("demo")>>, <<"version", Str("1.0.0")>> >>,
   eol |-> TRUE]

\* a manifest that has a type, dependencies and a member after its scripts
ManifestTyped ==
  [exists |-> TRUE,
   members |-> << <<"name", Str("demo")>>,
                  <<"type", Str("commonjs")>>,
                  <<"scripts", Obj(<< <<"test", Str("old")>> >>)>>,
                  <<"devDependencies", Obj(<< <<"eslint", Str("^latest")>> >>)>>,
                  <<"version", Str("1.0.0")>> >>,
   eol |-> TRUE]

InputManifests ==
  {NoFile, ManifestNoScripts, ManifestTyped} \cup {ManifestText(s) : s \in KeySeqs}

MergeIdle ==
  /\ manifest0 = NoFile
  /\ mstep = 0
  /\ addA = << >>
  /\ addB = << >>
  /\ fileAB = NoFile
  /\ fileBA = NoFile
  /\ again = NoFile
  /\ typed = NoFile

MergeInit ==
  /\ manifest0 \in InputManifests
  /\ mstep = 0
  /\ addA \in {Literal(s, "a") : s \in KeySeqs}
  /\ addB \in {Literal(s, "b") : s \in KeySeqs}
  /\ fileAB = manifest0
  /\ fileBA = manifest0
  /\ again = NoFile
  /\ typed = NoFile

\* first call: A on one copy of the manifest, B on the other
MergeFirst ==
  /\ mstep = 0
  /\ fileAB' = addScriptsToPackageJson(fileAB, addA).file
  /\ fileBA' = addScriptsToPackageJson(fileBA, addB).file
  /\ mstep' = 1
  /\ UNCHANGED <<manifest0, addA, addB, again, typed>>
  /\ UNCHANGED pipelineVars

\* the same additions applied a second time
MergeRepeat ==
  /\ mstep = 1
  /\ again' = addScriptsToPackageJson(fileAB, addA).file
  /\ mstep' = 2
  /\ UNCHANGED <<manifest0, addA, addB, fileAB, fileBA, typed>>
  /\ UNCHANGED pipelineVars

\* second call: the other additions on each copy
MergeSecond ==
  /\ mstep = 2
  /\ fileAB' = addScriptsToPackageJson(fileAB, addB).file
  /\ fileBA' = addScriptsToPackageJson(fileBA, addA).file
  /\ mstep' = 3
  /\ UNCHANGED <<manifest0, addA, addB, again, typed>>
  /\ UNCHANGED pipelineVars

\* modulePackageJson on the manifest as it was before the merges
MergeModule ==
  /\ mstep = 3
  /\ typed' = modulePackageJson(manifest0).file
  /\ mstep' = 4
  /\ UNCHANGED <<manifest0, addA, addB, fileAB, fileBA, again>>
  /\ UNCHANGED pipelineVars

MergeNext ==
  \/ MergeFirst
  \/ MergeRepeat
  \/ MergeSecond
  \/ MergeModule

----------------------------------------------------------------------------
(* runCommand, lines 34-60 *)

\* \s and the double quote of the regular expression of line 37
IsSpace(c) == c \in {" ", "\t", "\n", "\r", "\f"}
IsQuote(c) == c = "\""
Char(s, i) == SubSeq(s, i, i)

\* [^"\s]+ at position i: the position after the longest run (i when there is none)
RECURSIVE Unquoted(_, _)
Unquoted(s, i) ==
  IF i <= Len(s) /\ ~IsSpace(Char(s, i)) /\ ~IsQuote(Char(s, i))
    THEN Unquoted(s, i + 1) ELSE i

RECURSIVE NotQuotes(_, _)
NotQuotes(s, i) ==
  IF i <= Len(s) /\ ~IsQuote(Char(s, i)) THEN NotQuotes(s, i + 1) ELSE i

\* "[^"]+" at position i: the position after the closing quote (i when there is
\* no match)
Quoted(s, i) ==
  IF i <= Len(s) /\ IsQuote(Char(s, i))
    THEN LET j == NotQuotes(s, i + 1)
         IN IF j > i + 1 /\ j <= Len(s) /\ IsQuote(Char(s, j)) THEN j + 1 ELSE i
    ELSE i

\* the matches of /[^"\s]+|"[^"]+"/g from position i on, each as the matched text
RECURSIVE matchFrom(_, _)
matchFrom(s, i) ==
  IF i > Len(s) THEN << >>
  ELSE LET u == Unquoted(s, i)
           q == Quoted(s, i)
       IN IF u > i THEN <<SubSeq(s, i, u - 1)>> \o matchFrom(s, u)
          ELSE IF q > i THEN <<SubSeq(s, i, q - 1)>> \o matchFrom(s, q)
          ELSE matchFrom(s, i + 1)

\* line 37: command.match(...)
match(command) == matchFrom(command, 1)

\* lines 37-40: args.shift() is the executable, the rest are its arguments
SpawnReady ==
  /\ AtOp("run")
  /\ child.st # "running"
  /\ child.st = "none" \/ child.promise.state # "pending"

Spawn ==
  /\ SpawnReady
  /\ child' = [st |-> "running", command |-> Op.command,
               file |-> Head(match(Op.command)), args |-> Tail(match(Op.command)),
               stage |-> 0, buf |-> NoFile, code |-> 0,
               promise |-> NoPromise, stderr |-> << >>]
  /\ Log("spawn", Op.command)
  /\ UNCHANGED <<config, pc, phase, packageJson, files, git, task, detached,
                 exitCode, report, prevTrace, runNo>>
  /\ UNCHANGED mergeVars

\* whether the name has a parent directory of its own below the current one
RECURSIVE SeparatorFrom(_, _)
SeparatorFrom(s, i) ==
  IF i > Len(s) THEN 0
  ELSE IF Char(s, i) = "/" THEN i ELSE SeparatorFrom(s, i + 1)
HasSeparator(projectName) == SeparatorFrom(projectName, 1) > 0

\* the last component of the path: the name npm init gives the package
RECURSIVE Basename(_)
Basename(s) ==
  IF HasSeparator(s) THEN Basename(SubSeq(s, SeparatorFrom(s, 1) + 1, Len(s))) ELSE s

\* the child works in the project directory
ChildWork ==
  /\ phase = "running"
  /\ child.st = "running"
  /\ child.stage < Stages(child.command)
  /\ CanWork(child.command)
  /\ LET c == child.command IN
       /\ child' = [child EXCEPT !.stage = @ + 1,
                                 !.buf = IF IsInstall(c) /\ child.stage = 0
                                           THEN packageJson ELSE @]
       /\ packageJson' =
            IF c = NPM_INIT THEN NpmInitManifest(Basename(config.projectName))
            ELSE IF IsInstall(c) /\ child.stage = 1
              THEN NpmInstallManifest(child.buf, Packages(c))
            ELSE packageJson
       /\ files' =
            IF IsInstall(c) /\ child.stage = 1
              THEN SetFile(files, "node_modules", DIRECTORY)
            ELSE IF c = TAILWIND_INIT_TS
              THEN SetFile(files, "tailwind.config.ts", EMPTY_CONTENT_GLOB)
            ELSE IF c = TAILWIND_INIT_ESM
              THEN SetFile(files, "tailwind.config.js", EMPTY_CONTENT_GLOB)
            ELSE files
       /\ git' =
            IF c = GIT_INIT THEN [git EXCEPT !.repo = TRUE, !.branch = "master"]
            ELSE IF c = GIT_ADD
              THEN [git EXCEPT !.staged = TRUE, !.index = <<packageJson, files>>]
            ELSE IF c = GIT_COMMIT
              THEN [git EXCEPT !.staged = FALSE, !.commits = Append(@, git.index)]
            ELSE IF c = GIT_CHECKOUT THEN [git EXCEPT !.branch = "dev"]
            ELSE git
  /\ UNCHANGED <<config, pc, phase, task, detached, exitCode, report, trace,
                 prevTrace, runNo>>
  /\ UNCHANGED mergeVars

\* a call of resolve or reject: only the first one settles the promise
Settle(promise, state, reason) ==
  IF promise.state = "pending"
    THEN [state |-> state, reason |-> reason, calls |-> promise.calls + 1]
    ELSE [promise EXCEPT !.calls = @ + 1]

\* the errors with which the launch of an executable fails
LaunchErrors == {"ENOENT", "EACCES"}
SpawnError(file, errno) == "spawn " \o file \o " " \o errno

\* mutant: the error handler prints nothing
OnError_Silent(command, error) == [stderr |-> << >>, reason |-> error]

\* lines 42-46: the command line and the error are printed, the promise is
\* rejected with the error as it came
OnError(command, error) ==
  [stderr |-> <<"Error while executing command: " \o command, error>>,
   reason |-> error]

\* lines 42-46: the executable could not be launched
ChildError ==
  /\ phase = "running"
  /\ child.st = "running"
  /\ child.stage = 0
  /\ ~RejectionQueued
  /\ \E errno \in LaunchErrors :
       LET on == OnError(child.command, SpawnError(child.file, errno))
       IN /\ child' = [child EXCEPT !.st = "error",
                                    !.stderr = on.stderr,
                                    !.promise = Settle(@, "rejected", on.reason)]
          /\ Fail(on.reason)
  /\ Log("error", child.command)
  /\ UNCHANGED <<config, packageJson, files, git, task, prevTrace, runNo>>
  /\ UNCHANGED mergeVars

\* the exit codes a child can end with; -1 stands for null (ended by a signal)
ExitCodes == {0, 1, -1}

\* mutant: the exit code is not looked at
OnExit_AlwaysResolves(code) == "resolve"

\* mutant: an exit without a status settles nothing
OnExit_ForgetsNull(code) ==
  IF code > 0 THEN "reject" ELSE IF code = 0 THEN "resolve" ELSE "neither"

\* lines 48-58
OnExit(code) == IF code # 0 THEN "reject" ELSE "resolve"

\* lines 52-54: the message of the Error the promise is rejected with
CodeText(code) == IF code = -1 THEN "null" ELSE ToString(code)
ExitError(command, code) ==
  "Command \"" \o command \o "\" failed with exit code " \o CodeText(code)

ChildExit ==
  /\ phase = "running"
  /\ child.st = "running"
  /\ ~RejectionQueued
  /\ \E code \in ExitCodes :
       /\ code = 0 => child.stage = Stages(child.command)
       /\ child' = [child EXCEPT
                      !.st = "exited", !.code = code,
                      !.promise = IF OnExit(code) = "reject"
                                    THEN Settle(@, "rejected", ExitError(child.command, code))
                                  ELSE IF OnExit(code) = "resolve"
                                    THEN Settle(@, "resolved", "")
                                  ELSE @]
       /\ LogExit(child.command, code)
       /\ IF OnExit(code) = "reject" THEN Fail(ExitError(child.command, code))
          ELSE IF OnExit(code) = "resolve" THEN Advance
          ELSE UNCHANGED <<pc, phase, exitCode, report, detached>>
  /\ UNCHANGED <<config, packageJson, files, git, task, prevTrace, runNo>>
  /\ UNCHANGED mergeVars

----------------------------------------------------------------------------
(* The file operations of the steps *)

\* line 315: path.resolve(process.cwd(), projectName); the empty name resolves
\* to the current directory itself
ResolvesToCwd(projectName) == projectName = ""

\* mutant: a path that exists is no error, as with the recursive option
MkdirOutcomes_ExistingIsFine(path, recursive) ==
  IF ~recursive /\ path = "." /\ ResolvesToCwd(config.projectName)
    THEN {"EEXIST"}
  ELSE IF path = "." /\ HasSeparator(config.projectName)
    THEN {"ENOENT", "made"}
  ELSE {"made"}

\* the outcomes of mkdir without the recursive option: the path exists, its
\* parent does not exist, or the directory is made
MkdirOutcomes(path, recursive) ==
  IF ~recursive /\ (path \in DOMAIN files \/ (path = "." /\ ResolvesToCwd(config.projectName)))
    THEN {"EEXIST"}
  ELSE IF path = "." /\ HasSeparator(config.projectName)
    THEN {"ENOENT", "made"}
  ELSE {"made"}

\* fs.promises.mkdir
MkdirStep ==
  /\ AtOp("mkdir")
  /\ \E outcome \in MkdirOutcomes(Op.path, Op.recursive) :
       IF outcome # "made"
         THEN /\ Fail(IF outcome = "EEXIST" THEN DirectoryExists(Op.path)
                                            ELSE NoSuchDirectory(Op.path))
              /\ files' = files
              /\ Log("mkdir-failed", Op.path)
         ELSE /\ Advance
              /\ files' =
                   IF Op.path = "src/styles"
                     THEN SetFile(SetFile(files, "src", DIRECTORY), "src/styles", DIRECTORY)
                     ELSE SetFile(files, Op.path, DIRECTORY)
              /\ Log("mkdir", Op.path)
  /\ UNCHANGED <<config, packageJson, git, child, task, prevTrace, runNo>>
  /\ UNCHANGED mergeVars

\* readFile of a static template, then writeFile into the project
TemplateStep ==
  /\ AtOp("template")
  /\ files' = SetFile(files, Op.to, Op.from)
  /\ Log("write", Op.to)
  /\ Advance
  /\ UNCHANGED <<config, packageJson, git, child, task, prevTrace, runNo>>
  /\ UNCHANGED mergeVars

\* writeFile of fixed content
WriteStep ==
  /\ AtOp("write")
  /\ files' = SetFile(files, Op.path, Op.content)
  /\ Log("write", Op.path)
  /\ Advance
  /\ UNCHANGED <<config, packageJson, git, child, task, prevTrace, runNo>>
  /\ UNCHANGED mergeVars

\* lines 262-264: throw new Error(...)
ThrowStep ==
  /\ AtOp("throw")
  /\ Log("throw", Op.message)
  /\ Fail(Op.message)
  /\ UNCHANGED <<config, packageJson, files, git, child, task, prevTrace, runNo>>
  /\ UNCHANGED mergeVars

\* lines 190-202: readFile, String.replace, writeFile
ReplaceStep ==
  /\ AtOp("replace")
  /\ IF Op.path \in DOMAIN files
       THEN /\ files' = SetFile(files, Op.path,
                          IF files[Op.path] = Op.pattern THEN Op.by ELSE files[Op.path])
            /\ Log("write", Op.path)
            /\ Advance
       ELSE /\ files' = files
            /\ Log("read-failed", Op.path)
            /\ Fail(NoSuchFile(Op.path))
  /\ UNCHANGED <<config, packageJson, git, child, task, prevTrace, runNo>>
  /\ UNCHANGED mergeVars

----------------------------------------------------------------------------
(* Calls of the Manifest Store from the steps *)

StoreText(t) ==
  IF t.kind = "module" THEN moduleText(t.buf) ELSE addScriptsText(t.buf, t.scripts)

\* an awaited call: existsSync, then readFile is started (lines 64-71, 85-92)
ManifestCall ==
  /\ phase = "running" /\ pc <= Len(Program)
  /\ Op.op \in {"module", "scripts"}
  /\ Op.awaited
  /\ task.st \in {"none", "done"}
  /\ IF packageJson.exists
       THEN /\ task' = [st |-> "reading", kind |-> Op.op,
                        scripts |-> IF Op.op = "scripts" THEN Op.scripts ELSE << >>,
                        buf |-> NoFile]
            /\ Log("manifest-call", Op.op)
            /\ UNCHANGED <<pc, phase, exitCode, report, detached>>
       ELSE /\ task' = [task EXCEPT !.st = "rejected"]
            /\ Log("manifest-missing", Op.op)
            /\ Fail(FileNotFound)
  /\ UNCHANGED <<config, packageJson, files, git, child, prevTrace, runNo>>
  /\ UNCHANGED mergeVars

\* readFile completes
ManifestRead ==
  /\ phase = "running"
  /\ task.st = "reading"
  /\ task' = [task EXCEPT !.st = "writing", !.buf = packageJson]
  /\ Log("manifest-read", task.kind)
  /\ UNCHANGED <<config, pc, phase, packageJson, files, git, child, detached,
                 exitCode, report, prevTrace, runNo>>
  /\ UNCHANGED mergeVars

\* writeFile completes and the awaiting step continues
ManifestWriteReady == phase = "running" /\ task.st = "writing"

ManifestWrite ==
  /\ ManifestWriteReady
  /\ packageJson' = StoreText(task)
  /\ task' = [task EXCEPT !.st = "done"]
  /\ Log("manifest-write", task.kind)
  /\ Advance
  /\ UNCHANGED <<config, files, git, child, prevTrace, runNo>>
  /\ UNCHANGED mergeVars

\* lines 235-237: the call is made and its promise dropped; the step goes on
\* to its next operation in the same turn
CallNotAwaited ==
  /\ AtOp("scripts")
  /\ ~Op.awaited
  /\ detached' = IF packageJson.exists
                   THEN [st |-> "reading", kind |-> "scripts",
                         scripts |-> Op.scripts, buf |-> NoFile]
                   ELSE [detached EXCEPT !.st = "rejected"]
  /\ Log(IF packageJson.exists THEN "manifest-call" ELSE "manifest-missing", Op.op)
  /\ pc' = pc + 1
  /\ phase' = IF pc = Len(Program) THEN "done" ELSE "running"
  /\ UNCHANGED <<config, packageJson, files, git, child, task, exitCode, report,
                 prevTrace, runNo>>
  /\ UNCHANGED mergeVars

\* the main chain is suspended at an await (or has returned): only then
\* can the callbacks of another pending operation run
MainSuspended ==
  \/ phase = "done"
  \/ /\ phase = "running"
     /\ pc <= Len(Program)
     /\ (Op.op = "run" => child.st = "running")

DetachedRead ==
  /\ MainSuspended
  /\ detached.st = "reading"
  /\ detached' = [detached EXCEPT !.st = "writing", !.buf = packageJson]
  /\ Log("manifest-read", detached.kind)
  /\ UNCHANGED <<config, pc, phase, packageJson, files, git, child, task,
                 exitCode, report, prevTrace, runNo>>
  /\ UNCHANGED mergeVars

DetachedWrite ==
  /\ MainSuspended
  /\ detached.st = "writing"
  /\ packageJson' = StoreText(detached)
  /\ detached' = [detached EXCEPT !.st = "done"]
  /\ Log("manifest-write", detached.kind)
  /\ UNCHANGED <<config, pc, phase, files, git, child, task, exitCode, report,
                 prevTrace, runNo>>
  /\ UNCHANGED mergeVars

\* createProject has returned and nothing is pending: the process ends
ProcessExit ==
  /\ phase = "done"
  /\ ~Pending(detached)
  /\ exitCode = -1
  /\ exitCode' = 0
  /\ UNCHANGED <<config, pc, phase, packageJson, files, git, child, task, detached,
                 report, trace, prevTrace, runNo>>
  /\ UNCHANGED mergeVars

\* the rejection of the dropped promise ends the process with an uncaught
\* error and exit code 1 (the default of Node.js from version 15 on); no catch
\* of the generator runs
UnhandledRejectionThrows ==
  /\ RejectionQueued
  /\ MainSuspended
  /\ phase' = "crashed"
  /\ exitCode' = 1
  /\ detached' = [detached EXCEPT !.st = "thrown"]
  /\ UNCHANGED <<config, pc, packageJson, files, git, child, task, report, trace,
                 prevTrace, runNo>>
  /\ UNCHANGED mergeVars

\* the rejection of the dropped promise only prints a warning (the default of
\* Node.js before version 15) and the assembly goes on
UnhandledRejectionWarns ==
  /\ RejectionQueued
  /\ MainSuspended
  /\ detached' = [detached EXCEPT !.st = "warned"]
  /\ UNCHANGED <<config, pc, phase, packageJson, files, git, child, task, exitCode,
                 report, trace, prevTrace, runNo>>
  /\ UNCHANGED mergeVars

\* package.json disappears from the project directory, once (the case lines
\* 65-67 and 88-90 test for)
RemoveManifest ==
  /\ phase = "running"
  /\ packageJson.exists
  /\ \A i \in 1..Len(trace) : trace[i].e # "manifest-removed"
  /\ packageJson' = NoFile
  /\ Log("manifest-removed", "package.json")
  /\ UNCHANGED <<config, pc, phase, files, git, child, task, detached, exitCode,
                 report, prevTrace, runNo>>
  /\ UNCHANGED mergeVars

\* the tool is started again with the same answers except, possibly, the name
Restart ==
  /\ exitCode = 0
  /\ runNo = 1
  /\ runNo' = 2
  /\ prevTrace' = trace
  /\ \E name \in ProjectNames \ {config.projectName} :
       config' = [config EXCEPT !.projectName = name]
  /\ pc' = 1
  /\ phase' = "running"
  /\ packageJson' = NoFile
  /\ files' = << >>
  /\ git' = NoGit
  /\ child' = NoChild
  /\ task' = NoTask
  /\ detached' = NoTask
  /\ exitCode' = -1
  /\ report' = ""
  /\ trace' = << >>
  /\ UNCHANGED mergeVars

Next ==
  \/ Spawn
  \/ ChildWork
  \/ ChildError
  \/ ChildExit
  \/ MkdirStep
  \/ TemplateStep
  \/ WriteStep
  \/ ReplaceStep
  \/ ManifestCall
  \/ ManifestRead
  \/ ManifestWrite
  \/ CallNotAwaited
  \/ DetachedRead
  \/ DetachedWrite
  \/ ProcessExit

Init == PipelineInit /\ MergeIdle
Spec == Init /\ [][Next]_vars

\* one assembly in which every spawned command eventually exits or fails to
\* launch, every file operation eventually returns, and the code of the tool
\* that is ready to run does run
CommandsEnd == WF_vars(ChildExit \/ ChildError)
\* weak fairness of ManifestWrite, with its guard written out for ENABLED
WritesReturn == []<>(~ManifestWriteReady) \/ []<><<ManifestWrite>>_vars
FileOperationsReturn ==
  /\ WF_vars(MkdirStep \/ TemplateStep \/ WriteStep \/ ReplaceStep)
  /\ WF_vars(ManifestRead)
  /\ WritesReturn
\* weak fairness of Spawn, with its guard written out for ENABLED
SpawnRuns == []<>(~SpawnReady) \/ []<><<Spawn>>_vars
ToolRuns ==
  /\ WF_vars(ManifestCall \/ CallNotAwaited \/ ProcessExit)
  /\ SpawnRuns
SpecLive == Init /\ [][Next]_vars /\ CommandsEnd /\ FileOperationsReturn /\ ToolRuns

\* two assemblies, one after the other
NextTwice ==
  \/ Next
  \/ Restart
SpecTwice == Init /\ [][NextTwice]_vars

\* one assembly in a directory where the manifest can disappear
NextEnv ==
  \/ Next
  \/ RemoveManifest
  \/ UnhandledRejectionThrows
  \/ UnhandledRejectionWarns
SpecEnv == Init /\ [][NextEnv]_vars

\* one assembly for any answers createProject can be called with
InitAny == PipelineInitAny /\ MergeIdle
NextAny ==
  \/ Next
  \/ ThrowStep
SpecAny == InitAny /\ [][NextAny]_vars

\* one assembly started where the project path may be taken already
InitOccupied == PipelineInitOccupied /\ MergeIdle
SpecOccupied == InitOccupied /\ [][Next]_vars

\* the merge harness alone
InitMerge == MergeInit /\ PipelineIdle
SpecMerge == InitMerge /\ [][MergeNext]_vars

----------------------------------------------------------------------------
(* Properties *)

Last(s) == s[Len(s)]
KeySet(o) == {o[i][1] : i \in 1..Len(o)}
Ascending(keys) == \A i, j \in 1..Len(keys) : i < j => KeyLess(keys[i], keys[j])

\* the scripts member of a manifest text, as written (<< >> when there is none)
TextScripts(file) ==
  IF \E i \in 1..Len(file.members) : file.members[i][1] = "scripts"
    THEN file.members[CHOOSE i \in 1..Len(file.members) :
                        file.members[i][1] = "scripts"][2].obj
    ELSE << >>

ScriptKeys == OwnKeys(TextScripts(packageJson))
HasScript(k) == HasOwn(TextScripts(packageJson), k)
Script(k) == Get(TextScripts(packageJson), k)

CommandFailure(ev) == ev.e = "error" \/ (ev.e = "exit" /\ ev.code # 0)
Happened(e, what) == \E i \in 1..Len(trace) : trace[i].e = e /\ trace[i].what = what
Position(e, what) == CHOOSE i \in 1..Len(trace) : trace[i].e = e /\ trace[i].what = what
IsGitSpawn(ev) == ev.e = "spawn" /\ ev.what \in {GIT_INIT, GIT_ADD, GIT_COMMIT, GIT_CHECKOUT}

\* C1: when a command fails (it exits with a status other than 0, or cannot be
\* launched), the assembly halts there: the failure is the last action of the
\* trace, the process has exited with code 1 and nothing is left pending.
C1_HaltOnCommandFailure ==
  \A i \in 1..Len(trace) :
    CommandFailure(trace[i]) =>
      /\ i = Len(trace)
      /\ phase = "failed"
      /\ exitCode = 1
      /\ child.st # "running"
      /\ ~Pending(task)
      /\ ~Pending(detached)

\* a command of a later step (not the first command) has failed after it was spawned
C1_Witness ==
  /\ phase = "failed"
  /\ Len(trace) > 0
  /\ Last(trace).e = "exit"
  /\ Last(trace).what = GIT_COMMIT
  /\ Last(trace).code = 1

\* C2: every Manifest Store call of a step has completed before the step goes
\* on: while a manifest read-modify-write is in progress the step is still at
\* the operation that made the call and no command is running.
C2_ManifestCallsAwaited ==
  (Pending(task) \/ Pending(detached)) =>
    /\ child.st # "running"
    /\ phase = "running"
    /\ pc <= Len(Program)
    /\ Op.op \in {"module", "scripts"}

\* C3: once git add has started, neither the manifest nor any other file of
\* the project is written any more.
C3_NothingWrittenAfterGitAdd ==
  [][Happened("spawn", GIT_ADD) => (packageJson' = packageJson /\ files' = files)]_vars

TypescriptTailwind == config.type = "TypeScript" /\ config.useTailwindcss

\* C4: with TypeScript and Tailwind, singleDevScript is false; a completed
\* assembly has the scripts dev = "run-p dev:*", dev:tailwind, dev:typescript,
\* format and lint; and the scripts never hold build, typecheck or dev = "tsc -w".
C4_FannedOutDevScripts ==
  TypescriptTailwind =>
    /\ ~singleDevScript
    /\ phase = "done" =>
         /\ Script("dev") = Str("run-p dev:*")
         /\ {"dev:tailwind", "dev:typescript", "format", "lint"} \subseteq KeySet(TextScripts(packageJson))
    /\ ~HasScript("build")
    /\ ~HasScript("typecheck")
    /\ Script("dev") # Str("tsc -w")

C4_Witness == TypescriptTailwind /\ phase = "done" /\ HasScript("dev:typescript")

TypescriptGit ==
  config.type = "TypeScript" /\ ~config.useTailwindcss /\ config.useGit

\* C5: with TypeScript, no Tailwind and Git, a completed assembly has the
\* scripts build, dev, format, lint and typecheck, in ascending key order, the
\* placeholder src/app.ts, and a repository with exactly one commit on branch
\* dev; the git commands ran as init, add, commit, checkout -b dev, after the
\* ignore file was written.
C5_TypescriptWithGit ==
  (TypescriptGit /\ phase = "done") =>
    /\ {"build", "dev", "format", "lint", "typecheck"} \subseteq KeySet(TextScripts(packageJson))
    /\ Ascending(ScriptKeys)
    /\ "src/app.ts" \in DOMAIN files
    /\ files["src/app.ts"] = HELLO
    /\ git.repo
    /\ Len(git.commits) = 1
    /\ git.branch = "dev"
    /\ [i \in 1..4 |-> SelectSeq(trace, IsGitSpawn)[i].what]
         = <<GIT_INIT, GIT_ADD, GIT_COMMIT, GIT_CHECKOUT>>
    /\ Len(SelectSeq(trace, IsGitSpawn)) = 4
    /\ Happened("write", ".gitignore")
    /\ Position("write", ".gitignore") < Position("spawn", GIT_INIT)

C5_Witness == TypescriptGit /\ phase = "done" /\ exitCode = 0

JavascriptPlain ==
  config.type = "JavaScript" /\ ~config.useTailwindcss /\ ~config.useGit

\* C6 as claimed: with JavaScript, no Tailwind and no Git, a completed
\* assembly has exactly the scripts format and lint, in ascending key order,
\* no src directory and no repository (no git command was run).
C6_ExactlyFormatAndLint ==
  (JavascriptPlain /\ phase = "done") =>
    /\ KeySet(TextScripts(packageJson)) = {"format", "lint"}
    /\ Ascending(ScriptKeys)
    /\ "src" \notin DOMAIN files
    /\ ~git.repo
    /\ Len(SelectSeq(trace, IsGitSpawn)) = 0

\* C6 as amended: the scripts are format and lint and, besides them, only what
\* npm init wrote; they are in ascending key order; there is no src directory
\* and no repository (no git command was run).
C6_FormatAndLintAdded ==
  (JavascriptPlain /\ phase = "done") =>
    /\ {"format", "lint"} \subseteq KeySet(TextScripts(packageJson))
    /\ KeySet(TextScripts(packageJson)) \ {"format", "lint"}
         = KeySet(TextScripts(NpmInitManifest(config.projectName)))
    /\ Ascending(ScriptKeys)
    /\ "src" \notin DOMAIN files
    /\ ~git.repo
    /\ Len(SelectSeq(trace, IsGitSpawn)) = 0

C6_Witness == JavascriptPlain /\ phase = "done" /\ exitCode = 0

\* C7: two completed assemblies with the same language, useTailwind and useGit
\* executed the same actions in the same order.
C7_SameActionsForSameAnswers ==
  (runNo = 2 /\ exitCode = 0) => trace = prevTrace

\* C8: after the merge returns, the keys of the persisted scripts are in
\* ascending order under ordinal string comparison.
C8_PersistedKeysAscending ==
  (mstep > 0 /\ fileAB.exists) => Ascending(OwnKeys(TextScripts(fileAB)))

\* C9: two successive merges of additions A and B into a manifest: with disjoint key sets
\* both orders persist the same manifest; a key of both has the value of the
\* additions applied last; a script of neither keeps its value.
C9_MergeOrder ==
  (mstep = 3 /\ manifest0.exists) =>
    /\ KeySet(addA) \cap KeySet(addB) = {} => fileAB = fileBA
    /\ \A k \in KeySet(addA) \cap KeySet(addB) :
         /\ Get(TextScripts(fileAB), k) = Get(addB, k)
         /\ Get(TextScripts(fileBA), k) = Get(addA, k)
    /\ \A k \in KeySet(TextScripts(manifest0)) \ (KeySet(addA) \cup KeySet(addB)) :
         /\ Get(TextScripts(fileAB), k) = Get(TextScripts(manifest0), k)
         /\ Get(TextScripts(fileBA), k) = Get(TextScripts(manifest0), k)

\* both additions name a key that the manifest had, and the manifest has
\* another script that neither names
C9_Witness ==
  /\ mstep = 3
  /\ manifest0.exists
  /\ KeySet(addA) \cap KeySet(addB) \cap KeySet(TextScripts(manifest0)) # {}
  /\ KeySet(TextScripts(manifest0)) \ (KeySet(addA) \cup KeySet(addB)) # {}
  /\ fileAB # fileBA

\* C10: a second merge of the same additions leaves the persisted manifest as
\* the first one left it.
C10_MergeIdempotent ==
  (mstep = 2 /\ manifest0.exists) => (again.exists /\ again = fileAB)

\* the first merge changed the manifest, the second one was applied to its result
C10_Witness ==
  /\ mstep = 2
  /\ fileAB.exists
  /\ Len(addA) = 2
  /\ fileAB.members # manifest0.members
  /\ again.exists

\* for every configuration but JavaScript with Tailwind, the second assembly
\* executed what the first one did
SameActionsWhenAllAwaited ==
  (runNo = 2 /\ exitCode = 0 /\ ~(config.type = "JavaScript" /\ config.useTailwindcss))
    => trace = prevTrace

----------------------------------------------------------------------------
(* The orchestrator *)

\* the entry of the trace that an operation leaves when it is invoked
IsStart(ev) ==
  ev.e \in {"spawn", "mkdir", "mkdir-failed", "write", "read-failed",
            "manifest-call", "manifest-missing", "throw"}
Started == SelectSeq(trace, IsStart)
Starts(ev, op) ==
  CASE op.op = "run" -> ev.e = "spawn" /\ ev.what = op.command
    [] op.op = "mkdir" -> ev.e \in {"mkdir", "mkdir-failed"} /\ ev.what = op.path
    [] op.op = "template" -> ev.e = "write" /\ ev.what = op.to
    [] op.op = "write" -> ev.e = "write" /\ ev.what = op.path
    [] op.op = "replace" -> ev.e \in {"write", "read-failed"} /\ ev.what = op.path
    [] op.op = "throw" -> ev.e = "throw" /\ ev.what = op.message
    [] OTHER -> ev.e \in {"manifest-call", "manifest-missing"} /\ ev.what = op.op

\* an operation raised an error
IsFailure(ev) ==
  CommandFailure(ev)
    \/ ev.e \in {"mkdir-failed", "read-failed", "manifest-missing", "throw"}

AllSelected == config.type = "TypeScript" /\ config.useTailwindcss /\ config.useGit

C11_InOrderOnce ==
  /\ pc \in 1..(Len(Program) + 1)
  /\ Len(Started) \in {pc - 1, pc} \cap (0..Len(Program))
  /\ \A i \in 1..Len(Started) : Starts(Started[i], Program[i])
  /\ phase = "running" => \A i \in 1..Len(trace) : ~IsFailure(trace[i])
  /\ phase = "done" =>
       /\ pc = Len(Program) + 1
       /\ Len(Started) = Len(Program)
       /\ \A i \in 1..Len(trace) : ~IsFailure(trace[i])
       /\ \A i \in 1..Len(Program) :
            Program[i].op = "run" =>
              \E j \in 1..Len(trace) : trace[j] = Event("exit", Program[i].command, 0)
       /\ child.st # "running"
       /\ ~Pending(task)
  /\ phase = "failed" => (Len(trace) > 0 /\ IsFailure(Last(trace)) /\ Len(Started) = pc)

C11_Linear ==
  /\ pc' \in {pc, pc + 1}
  /\ phase = "done" => (phase' = "done" /\ pc' = pc /\ Started' = Started)
  /\ phase = "failed" => UNCHANGED pipelineVars

C11_WitnessFailed == phase = "failed" /\ pc > 4 /\ Len(Started) = pc

\* whether text t occurs in text s
Contains(s, t) ==
  \E i \in 1..(Len(s) - Len(t) + 1) : SubSeq(s, i, i + Len(t) - 1) = t

\* C12: the promise of runCommand is resolved exactly when the child exited
\* with status 0; when the child exits with another status or with none, or
\* cannot be launched, the promise is rejected and the command line is in what
\* is reported (the message of the rejection or the line printed with it); and
\* resolve or reject is called once for one run.
C12_RunCommandOutcome ==
  /\ child.st = "running" => child.promise = NoPromise
  /\ child.st \in {"exited", "error"} =>
       /\ child.promise.calls = 1
       /\ child.promise.state = "resolved" <=> (child.st = "exited" /\ child.code = 0)
       /\ child.promise.state = "rejected" <=> (child.st = "error" \/ child.code # 0)
       /\ child.promise.state = "rejected" =>
            \/ Contains(child.promise.reason, child.command)
            \/ \E i \in 1..Len(child.stderr) : Contains(child.stderr[i], child.command)
       /\ child.promise.state = "rejected" => phase = "failed"

\* the commit command, with its quoted argument, could not be launched
C12_Witness ==
  /\ child.st = "error"
  /\ child.command = GIT_COMMIT
  /\ child.promise.state = "rejected"
  /\ child.promise.reason = "spawn git EACCES"

Ended == exitCode # -1

\* C13: the process ends with exit code 0 only when the assembly is completed
\* and no operation of it, manifest mutations included, raised an error; and
\* whenever an operation raised an error the process ends with exit code 1.
C13_ExitCodeTellsOutcome ==
  Ended =>
    /\ exitCode = 0 =>
         /\ phase = "done"
         /\ \A i \in 1..Len(trace) : ~IsFailure(trace[i])
         /\ task.st \in {"none", "done"}
         /\ detached.st \in {"none", "done"}
    /\ (\E i \in 1..Len(trace) : IsFailure(trace[i])) => exitCode = 1

\* the names under which a report could name a step: the name of its function
\* and the words of the catch of lines 135-138
StepNames(fn) ==
  IF fn = "createNpmProject" THEN {fn, "creating npm project"} ELSE {fn}

\* the message of the error that ended the assembly
FailureMessage ==
  LET ev == Last(trace)
  IN CASE ev.e = "exit" -> ExitError(ev.what, ev.code)
       [] ev.e = "error" -> child.promise.reason
       [] ev.e = "mkdir-failed" -> DirectoryExists(ev.what)
       [] ev.e = "read-failed" -> NoSuchFile(ev.what)
       [] ev.e = "throw" -> ev.what
       [] OTHER -> FileNotFound

ManifestType == Get(packageJson.members, "type")
TypeIsSet == \E i \in 1..Len(trace) : trace[i] = Event("manifest-write", "module", 0)
TypeSetAt == CHOOSE i \in 1..Len(trace) : trace[i] = Event("manifest-write", "module", 0)
IsScriptMerge(ev) == ev.e \in {"manifest-call", "manifest-missing"} /\ ev.what = "scripts"

\* when type is set: after npm init has created the manifest and the baseline
\* install has ended, before every script merge
C15_TypeSetInPlace ==
  /\ HasOwn(packageJson.members, "type") => (TypeIsSet /\ ManifestType = Str("module"))
  /\ TypeIsSet =>
       /\ \E j \in 1..TypeSetAt : trace[j] = Event("exit", NPM_INIT, 0)
       /\ \E j \in 1..TypeSetAt : trace[j] = Event("exit", NPM_INSTALL_LINT, 0)
  /\ \A i \in 1..Len(trace) : IsScriptMerge(trace[i]) => (TypeIsSet /\ TypeSetAt < i)

\* C15 as claimed: type is "module" only when the language is JavaScript, and
\* it is set after init-npm-project created the manifest and before any script
\* merge.
C15_ModuleOnlyForJavaScript ==
  /\ ManifestType = Str("module") => config.type = "JavaScript"
  /\ C15_TypeSetInPlace

\* C15 as amended: type is set to "module" in every assembly, whatever the
\* language, after npm init has created the manifest and before any script
\* merge; every completed assembly has it.
C15_ModuleForEveryLanguage ==
  /\ C15_TypeSetInPlace
  /\ phase = "done" => ManifestType = Str("module")
  /\ pc > 4 => ManifestType = Str("module")

\* a completed TypeScript assembly
C15_Witness ==
  /\ config.type = "TypeScript"
  /\ phase = "done"
  /\ ManifestType = Str("module")
  /\ \E i \in 1..Len(trace) : IsScriptMerge(trace[i])

MissingAt(i) == trace[i].e = "manifest-missing"

\* a manifest mutation found no manifest: the assembly is failed, or the
\* runtime is ending the process for the rejection nothing handled
C16_Fatal ==
  \A i \in 1..Len(trace) :
    MissingAt(i) =>
      /\ phase # "done"
      /\ exitCode # 0
      /\ \/ phase = "failed" /\ i = Len(trace)
         \/ RejectionQueued
         \/ phase = "crashed"

\* the step in which the mutation finds no manifest writes nothing
C16_NothingWritten ==
  (Len(trace') = Len(trace) + 1 /\ Last(trace').e = "manifest-missing")
    => (packageJson' = packageJson /\ files' = files)

\* C16: a manifest mutation that is invoked while package.json does not exist
\* creates and writes no file, and its error ends the assembly: the assembly
\* fails (or the process is ended for the error) and is never completed,
\* whichever call of the pipeline it is.
C16_MissingManifestIsFatal == []C16_Fatal /\ [][C16_NothingWritten]_vars

OtherConfig == config.projectName \in OtherNames \/ config.type \in OtherTypes

\* C17: for an empty project name, a name that is not one directory component
\* or a type other than JavaScript and TypeScript, nothing is done: no
\* directory is made, no command is run and no file is written.
C17_RejectedBeforeSideEffects ==
  OtherConfig =>
    /\ files = << >>
    /\ ~packageJson.exists
    /\ git = NoGit
    /\ \A i \in 1..Len(trace) : trace[i].e \notin {"spawn", "mkdir", "write"}

\* the type is rejected only by createEslintConfig, after the directory, the
\* manifest and the installs
RejectedLate ==
  /\ config.type \in OtherTypes
  /\ phase = "failed"
  /\ report = "Error creating project: Invalid project type"
  /\ packageJson.exists

\* the two manifest texts have the same top-level fields with the same values,
\* but for the field key
FieldsKept(before, after, key) ==
  LET b == JSONparse(before)
      a == JSONparse(after)
  IN \A k \in (KeySet(b) \cup KeySet(a)) \ {key} :
       /\ HasOwn(b, k) <=> HasOwn(a, k)
       /\ Get(b, k) = Get(a, k)

\* C18: modulePackageJson changes no field of the manifest but type (the
\* scripts stay as they are), and addScriptsToPackageJson changes no top-level
\* field but scripts, whatever manifest is on disk when they are called; with
\* no manifest on disk they write nothing.
C18_UnrelatedFieldsKept ==
  /\ mstep >= 1 =>
       IF manifest0.exists
         THEN FieldsKept(manifest0, fileAB, "scripts") /\ FieldsKept(manifest0, fileBA, "scripts")
         ELSE fileAB = NoFile /\ fileBA = NoFile
  /\ mstep >= 2 =>
       IF manifest0.exists THEN FieldsKept(fileAB, again, "scripts") ELSE again = NoFile
  /\ mstep = 4 =>
       IF manifest0.exists
         THEN /\ FieldsKept(manifest0, typed, "type")
              /\ Get(JSONparse(typed), "type") = Str("module")
         ELSE typed = NoFile

\* the manifest had a type, dependencies and scripts; both mutations changed it
C18_Witness ==
  /\ mstep = 4
  /\ manifest0 = ManifestTyped
  /\ typed.exists
  /\ typed.members # manifest0.members
  /\ Get(JSONparse(typed), "devDependencies") = Get(JSONparse(manifest0), "devDependencies")
  /\ Len(addA) > 0
  /\ Get(JSONparse(fileAB), "scripts") # Get(JSONparse(manifest0), "scripts")

\* the text between the quotes of the commit message of line 298
COMMIT_MESSAGE == "Initial commit: project setup"

\* C19: the command line is split at whitespace with a double-quoted part kept
\* as one token; the first token is the executable, the others are its
\* arguments; the quoted commit message is passed as one argument whose value
\* is the text between the quotes, and no argument holds a quote or a space
\* that was not inside quotes.
C19_QuotedArgumentIsItsText ==
  child.st # "none" =>
    /\ child.file = Head(match(child.command))
    /\ child.args = Tail(match(child.command))
    /\ \A i \in 1..Len(child.args) :
         /\ ~Contains(child.args[i], "\"")
         /\ Contains(child.args[i], " ") => child.args[i] = COMMIT_MESSAGE
    /\ child.command = GIT_COMMIT =>
         (child.file = "git" /\ child.args = <<"commit", "-m", COMMIT_MESSAGE>>)

\* what git is given: three arguments, the third with its quotes
QuotesPassedOn ==
  /\ child.command = GIT_COMMIT
  /\ child.st = "exited"
  /\ child.code = 0
  /\ child.file = "git"
  /\ child.args = <<"commit", "-m", "\"" \o COMMIT_MESSAGE \o "\"">>

\* every other command is split at its spaces
SplitAtSpaces ==
  (child.st # "none" /\ child.command # GIT_COMMIT) =>
    /\ \A i \in 1..Len(child.args) : ~Contains(child.args[i], " ") /\ Len(child.args[i]) > 0
    /\ Contains(child.command, child.file)

DevDependencies ==
  LET d == Get(packageJson.members, "devDependencies")
  IN IF IsObj(d) THEN d.obj ELSE << >>

Contributions ==
  /\ \A i \in 1..Len(Program) :
       Program[i].op = "scripts" =>
         \A k \in KeySet(Program[i].scripts) : Script(k) = Get(Program[i].scripts, k)
  /\ \A i \in 1..Len(Program) :
       (Program[i].op = "run" /\ IsInstall(Program[i].command)) =>
         \A j \in 1..Len(Packages(Program[i].command)) :
           HasOwn(DevDependencies, Packages(Program[i].command)[j])

\* C20: when the assembly is completed and the process has ended, the scripts
\* of the manifest hold every key that an executed step merged, with the value
\* that step gave it, and the devDependencies hold every package that an
\* install command of the assembly saved.
C20_NoContributionLost ==
  (phase = "done" /\ exitCode = 0) => Contributions

\* with every configuration but JavaScript with Tailwind nothing is lost
NothingLostWhenAllAwaited ==
  (phase = "done" /\ exitCode = 0 /\ ~(config.type = "JavaScript" /\ config.useTailwindcss))
    => Contributions

\* the css script is lost: npm wrote the manifest it had read before the merge
LostScript ==
  /\ phase = "done" /\ exitCode = 0
  /\ ~HasScript("css")
  /\ HasOwn(DevDependencies, "prettier-plugin-tailwindcss")

\* a dependency is lost: the merge wrote the manifest it had read before npm's write
LostDependency ==
  /\ phase = "done" /\ exitCode = 0
  /\ HasScript("css")
  /\ ~HasOwn(DevDependencies, "prettier-plugin-tailwindcss")

Terminal == phase \in {"done", "failed"}

\* while the command of a step is running the assembly stays at that step
C21_Waits ==
  (child.st = "running" /\ child'.st = "running") =>
    (pc' = pc /\ phase' = phase /\ child'.command = child.command)

\* C21: when every spawned command eventually exits or fails to launch and
\* every file operation eventually returns, the assembly eventually is
\* completed or failed, whatever the configuration; and as long as the command
\* of a step has not exited the assembly stays at that step.
C21_Terminates == <>Terminal /\ [][C21_Waits]_vars

\* JavaScript with Tailwind: the assembly completed, the dropped merge too,
\* and the process ended
C21_Witness ==
  /\ config.type = "JavaScript" /\ config.useTailwindcss
  /\ phase = "done"
  /\ detached.st = "done"
  /\ exitCode = 0

\* the end of the word of a script line that starts at position i
RECURSIVE WordEnd(_, _)
WordEnd(s, i) == IF i <= Len(s) /\ Char(s, i) # " " THEN WordEnd(s, i + 1) ELSE i

\* the words of a script line, as the shell that npm runs it with splits them
RECURSIVE WordsFrom(_, _)
WordsFrom(s, i) ==
  IF i > Len(s) THEN << >>
  ELSE IF Char(s, i) = " " THEN WordsFrom(s, i + 1)
  ELSE <<SubSeq(s, i, WordEnd(s, i) - 1)>> \o WordsFrom(s, WordEnd(s, i))

\* the file a tailwindcss command line names after -i ("" when it names none)
InputFile(script) ==
  LET w == WordsFrom(script, 1)
  IN IF \E i \in 1..(Len(w) - 1) : w[i] = "-i"
       THEN w[(CHOOSE i \in 1..(Len(w) - 1) : w[i] = "-i") + 1]
       ELSE ""

\* a path given relative to the project directory, without its leading ./
Relative(p) ==
  IF Len(p) >= 2 /\ SubSeq(p, 1, 2) = "./" THEN SubSeq(p, 3, Len(p)) ELSE p

WatchKeys == {"css", "dev:tailwind"}

\* the stylesheet that setupTailwindcss wrote is there
StylesheetCreated ==
  /\ "src/styles/styles.css" \in DOMAIN files
  /\ files["src/styles/styles.css"] = CSS_CONTENT

\* C22: whenever the manifest holds the Tailwind watch script that
\* setupTailwindcss merged (css with a single dev script, dev:tailwind
\* otherwise), the file that script names after -i is src/styles/styles.css,
\* the stylesheet the same step has created.
C22_WatchInputIsStylesheet ==
  \A k \in WatchKeys :
    HasScript(k) =>
      /\ StylesheetCreated
      /\ Relative(InputFile(Script(k).str)) = "src/styles/styles.css"

\* the watch script is merged under the key of the configuration, after the
\* step wrote its stylesheet
WatchScriptMerged ==
  \A k \in WatchKeys :
    HasScript(k) =>
      /\ StylesheetCreated
      /\ config.useTailwindcss
      /\ k = (IF config.type = "JavaScript" THEN "css" ELSE "dev:tailwind")
      /\ InputFile(Script(k).str) # ""

\* a completed assembly whose watch script names a file that does not exist
WatchInputMissing ==
  /\ phase = "done"
  /\ exitCode = 0
  /\ \E k \in WatchKeys :
       /\ HasScript(k)
       /\ Relative(InputFile(Script(k).str)) \notin DOMAIN files

\* createProject has been called and nothing has happened yet
NotStarted == phase = "running" /\ pc = 1 /\ trace = << >>
ProjectPathExists == "." \in DOMAIN files

\* from NotStarted with the project path taken, the one step possible is the
\* failure of mkdir: exit code 1, nothing spawned or called, nothing changed
\* in what was there
FailsAtOnce ==
  (NotStarted /\ ProjectPathExists) =>
    /\ phase' = "failed"
    /\ exitCode' = 1
    /\ pc' = pc
    /\ trace' = <<Event("mkdir-failed", ".", 0)>>
    /\ report' = "Error creating project: " \o DirectoryExists(".")
    /\ child' = NoChild /\ task' = NoTask /\ detached' = NoTask
    /\ files' = files /\ packageJson' = packageJson /\ git' = git

\* once failed there, the assembly stays as it is
NothingAfter ==
  (phase = "failed" /\ pc = 1) =>
    /\ files' = files /\ packageJson' = packageJson /\ git' = git
    /\ child' = child /\ trace' = trace /\ exitCode' = exitCode

\* C23: when a directory or a file already exists at the project path, the
\* assembly goes from NotStarted directly to Failed with exit code 1: the only
\* event is the failed mkdir, no step runs, no command is spawned, and what
\* was at the path stays as it was.
C23_FailsAtDirectoryCreation == [][FailsAtOnce /\ NothingAfter]_vars

C23_Witness ==
  /\ phase = "failed"
  /\ exitCode = 1
  /\ trace = <<Event("mkdir-failed", ".", 0)>>
  /\ child = NoChild
  /\ "src/app.js" \in DOMAIN files /\ files["src/app.js"] = HELLO
  /\ packageJson = NpmInitManifest(config.projectName)

\* the same where a file has the name of the project
FailedOnFile ==
  /\ phase = "failed"
  /\ exitCode = 1
  /\ files = [p \in {"."} |-> EXISTING_FILE]
====
